---------------------------- MODULE Spec2Model ----------------------------
(***************************************************************************)
(* Model of src/src/main.js (3d-model-tester): animation classification,   *)
(* the animation player (setAnimation), attack / jump lifecycle, the       *)
(* player and enemy per-frame updates, and model (re)loading.              *)
(*                                                                         *)
(* Numbers are fixed point: lengths in 1/100 world units, angles in        *)
(* milliradians, times in milliseconds, speeds in 1/100 units per second,  *)
(* sines and cosines in 1/1000.                                            *)
(***************************************************************************)
EXTENDS Integers, Sequences, FiniteSets, TLC

VARIABLES
    position,          \* playerState.position / enemyState.position
    rotation,          \* playerState.rotation.y / enemyState.rotation.y (= model.rotation.y)
    velocity,          \* playerState.velocity / enemyState.velocity
    currentAnimation,  \* <char>State.currentAnimation
    isAttacking,       \* <char>State.isAttacking
    isJumping,         \* <char>State.isJumping
    attackCooldown,    \* enemyState.attackCooldown
    animations,        \* playerAnimations / enemyAnimations: role -> action
    animationMap,      \* animationMap.player / .enemy: role -> {clip, duration}
    mixer,             \* playerMixer / enemyMixer (0: undefined)
    model,             \* playerModel / enemyModel (0: undefined)
    scene,             \* character model nodes currently added to the scene
    running,           \* actions on which play() was called and that were not stopped
    keys,              \* the keys record
    timers,            \* pending setTimeout callbacks armed by performAttack
    loads,             \* loader.load requests whose callback has not run yet
    nextId,            \* id of the next upload's player load (its enemy load: + 1);
                       \* a load's gltf, model and mixer carry the load's id
    startupFile,       \* clip list stored in models/character.glb
    events,            \* input events and frames handled so far (bounds the exploration)
    calls,             \* setAnimation requests made by the last handler, with outcome
    alerts,            \* alert() dialogs shown by the last handler
    ev,                \* the last handler that ran, with its arguments
    before             \* the models and bindings when the last upload was requested

vars == <<position, rotation, velocity, currentAnimation, isAttacking, isJumping,
          attackCooldown, animations, animationMap, mixer, model, scene, running,
          keys, timers, loads, nextId, startupFile, events, calls, alerts, ev, before>>

-----------------------------------------------------------------------------
(* Bounds of the exploration *)

MaxClips == 3
MaxEvents == 4

-----------------------------------------------------------------------------
(* Program constants *)

Pi == 3142
TwoPi == Pi * 2
HalfPi == Pi \div 2
Gravity == 980
MapBoundary == 2500
TreeRadius == 70
PlayerMoveSpeed == 500
PlayerRunSpeed == 1000
PlayerRotationSpeed == 3
PlayerJumpSpeed == 500
EnemyMoveSpeed == 300
EnemyAttackDistance == 200
EnemyFollowDistance == 1500
EnemyTurnRate == 3
EnemyCooldownReset == 2000
DefaultAttackDuration == 1000

Chars == {"player", "enemy"}
Roles == {"IDLE", "WALK", "RUN", "JUMP", "ATTACK"}
KeyNames == {"w", "a", "s", "d", "space", "shift", "f"}

-----------------------------------------------------------------------------
(* Arithmetic helpers *)

Abs(n) == IF n < 0 THEN -n ELSE n

Min(a, b) == IF a < b THEN a ELSE b

\* a / b rounded toward zero (b > 0): the fixed-point image of a float product
Quot(a, b) == IF a >= 0 THEN a \div b ELSE -((-a) \div b)

RECURSIVE SqrtIter(_, _, _)
SqrtIter(n, lo, hi) ==
    IF lo >= hi THEN lo
    ELSE LET mid == (lo + hi + 1) \div 2
         IN  IF mid * mid <= n THEN SqrtIter(n, mid, hi) ELSE SqrtIter(n, lo, mid - 1)

\* Math.sqrt, rounded down
Sqrt(n) == SqrtIter(n, 0, 46340)

\* Math.sin on [0, Pi] (Bhaskara's rational approximation), result in 1/1000
SinHalf(x) ==
    LET p == (x * (Pi - x)) \div 1000
    IN  (16000 * p) \div (49360 - 4 * p)

\* Math.sin of an angle in milliradians, result in 1/1000
Sin(a) ==
    LET r == a % TwoPi
    IN  IF r <= Pi THEN SinHalf(r) ELSE -SinHalf(r - Pi)

\* Math.cos of an angle in milliradians, result in 1/1000
Cos(a) == Sin(a + HalfPi)

\* atan(n / d) for 0 <= n <= d, d > 0, in milliradians
AtanUnit(n, d) ==
    LET t == (1000 * n) \div d
    IN  (785 * t + (273 * t * (1000 - t)) \div 1000) \div 1000

\* Math.atan2(y, x) in milliradians, in [-Pi, Pi]
Atan2(y, x) ==
    LET ay == Abs(y)
        ax == Abs(x)
        base == IF ax = 0 /\ ay = 0 THEN 0
                ELSE IF ay <= ax THEN AtanUnit(ay, ax)
                ELSE HalfPi - AtanUnit(ax, ay)
        half == IF x >= 0 THEN base ELSE Pi - base
    IN  IF y >= 0 THEN half ELSE -half

-----------------------------------------------------------------------------
(* Clip names: strings are sequences of characters *)

LowerCase == <<"a", "b", "c", "d", "e", "f", "g", "h", "i", "j", "k", "l", "m",
               "n", "o", "p", "q", "r", "s", "t", "u", "v", "w", "x", "y", "z">>

UpperCase == <<"A", "B", "C", "D", "E", "F", "G", "H", "I", "J", "K", "L", "M",
               "N", "O", "P", "Q", "R", "S", "T", "U", "V", "W", "X", "Y", "Z">>

\* String.prototype.toUpperCase
ToUpperCase(s) ==
    [i \in 1..Len(s) |->
        IF \E k \in 1..26 : LowerCase[k] = s[i]
        THEN UpperCase[CHOOSE k \in 1..26 : LowerCase[k] = s[i]]
        ELSE s[i]]

\* String.prototype.includes
Includes(s, sub) ==
    \E i \in 1..(Len(s) - Len(sub) + 1) : SubSeq(s, i, i + Len(sub) - 1) = sub

KwIDLE == <<"I", "D", "L", "E">>
KwSTOPPED == <<"S", "T", "O", "P", "P", "E", "D">>
KwWALK == <<"W", "A", "L", "K">>
KwRUN == <<"R", "U", "N">>
KwSPRINT == <<"S", "P", "R", "I", "N", "T">>
KwJUMP == <<"J", "U", "M", "P">>
KwLEAP == <<"L", "E", "A", "P">>
KwATTACK == <<"A", "T", "T", "A", "C", "K">>
KwSHOOT == <<"S", "H", "O", "O", "T">>
KwFIRE == <<"F", "I", "R", "E">>

\* The clips a model file may hold (name, duration in ms)
ClipPool == <<
    [name |-> <<"B", "a", "s", "e", "_", "I", "D", "L", "E">>, duration |-> 1200],
    [name |-> <<"S", "t", "a", "n", "d", "_", "S", "t", "o", "p", "p", "e", "d">>, duration |-> 1500],
    [name |-> <<"W", "a", "l", "k", "C", "y", "c", "l", "e">>, duration |-> 1000],
    [name |-> <<"R", "U", "N", "_", "J", "U", "M", "P">>, duration |-> 600],
    [name |-> <<"L", "e", "a", "p">>, duration |-> 900],
    [name |-> <<"A", "t", "t", "a", "c", "k">>, duration |-> 800],
    [name |-> <<"F", "i", "r", "e", "W", "a", "l", "k">>, duration |-> 700],
    [name |-> <<"T", "-", "P", "o", "s", "e">>, duration |-> 400],
    [name |-> <<"s", "h", "o", "o", "t">>, duration |-> 0] >>

ClipIds == 1..Len(ClipPool)

-----------------------------------------------------------------------------
(* Objects *)

\* A clip of a loaded gltf: the load that produced it and its index in the file
NoClip == [load |-> 0, idx |-> 0]

\* An AnimationAction: mixer.clipAction(clip)
NoAction == [mixer |-> 0, clip |-> NoClip]

ClipAction(m, clip) == [mixer |-> m, clip |-> clip]

EmptyAnimations == [r \in Roles |-> NoAction]

EmptyAnimationMap == [r \in Roles |-> [clip |-> NoClip, duration |-> 0]]

\* The program state as one record, threaded through the handlers' statements
World ==
    [position |-> position, rotation |-> rotation, velocity |-> velocity,
     currentAnimation |-> currentAnimation, isAttacking |-> isAttacking,
     isJumping |-> isJumping, attackCooldown |-> attackCooldown,
     animations |-> animations, animationMap |-> animationMap, mixer |-> mixer,
     model |-> model, scene |-> scene, running |-> running, keys |-> keys,
     timers |-> timers, loads |-> loads, nextId |-> nextId, calls |-> <<>>,
     alerts |-> <<>>]

\* mixer.stopAllAction()
StopAllAction(run, m) == {a \in run : a.mixer # m}

-----------------------------------------------------------------------------
(* Animation player *)

SetAnimationNoSameGuard(w, c, animationName) ==
    IF w.animations[c][animationName] = NoAction
    THEN [w EXCEPT !.calls = Append(@, [char |-> c, role |-> animationName, result |-> "unbound"])]
    ELSE [w EXCEPT
            !.running = (IF w.mixer[c] # 0 THEN StopAllAction(@, w.mixer[c]) ELSE @)
                            \cup {w.animations[c][animationName]},
            !.currentAnimation[c] = animationName,
            !.calls = Append(@, [char |-> c, role |-> animationName, result |-> "played"])]

SetAnimationNoBoundGuard(w, c, animationName) ==
    IF w.currentAnimation[c] = animationName
    THEN [w EXCEPT !.calls = Append(@, [char |-> c, role |-> animationName, result |-> "same"])]
    ELSE [w EXCEPT
            !.running = (IF w.mixer[c] # 0 THEN StopAllAction(@, w.mixer[c]) ELSE @)
                            \cup {w.animations[c][animationName]},
            !.currentAnimation[c] = animationName,
            !.calls = Append(@, [char |-> c, role |-> animationName, result |-> "played"])]

\* setAnimation(character, animationName)
SetAnimation(w, c, animationName) ==
    IF w.animations[c][animationName] = NoAction
    THEN [w EXCEPT !.calls = Append(@, [char |-> c, role |-> animationName, result |-> "unbound"])]
    ELSE IF w.currentAnimation[c] = animationName
    THEN [w EXCEPT !.calls = Append(@, [char |-> c, role |-> animationName, result |-> "same"])]
    ELSE [w EXCEPT
            !.running = (IF w.mixer[c] # 0 THEN StopAllAction(@, w.mixer[c]) ELSE @)
                            \cup {w.animations[c][animationName]},
            !.currentAnimation[c] = animationName,
            !.calls = Append(@, [char |-> c, role |-> animationName, result |-> "played"])]

\* performAttack(character)
\* a variant of PerformAttack that locks and arms the timer without an ATTACK action
PerformAttackWithoutClip(w, c) ==
    LET w1 == SetAnimation([w EXCEPT !.isAttacking[c] = TRUE], c, "ATTACK")
        attackDuration ==
            IF w.animationMap[c]["ATTACK"].duration > 0
            THEN w.animationMap[c]["ATTACK"].duration
            ELSE DefaultAttackDuration
    IN  [w1 EXCEPT !.timers = Append(@, [char |-> c, duration |-> attackDuration,
                                          live |-> TRUE, idle |-> FALSE])]

PerformAttack(w, c) ==
    IF w.animations[c]["ATTACK"] = NoAction THEN w
    ELSE LET w1 == SetAnimation([w EXCEPT !.isAttacking[c] = TRUE], c, "ATTACK")
             attackDuration ==
                 IF w.animationMap[c]["ATTACK"].duration > 0
                 THEN w.animationMap[c]["ATTACK"].duration
                 ELSE DefaultAttackDuration
         IN  [w1 EXCEPT !.timers = Append(@, [char |-> c, duration |-> attackDuration,
                                               live |-> TRUE, idle |-> FALSE])]

\* Whether the animations object captured by a timer's closure has an IDLE action:
\* the object is the current one (live) or one that loadCustomModel replaced.
TimerSeesIdle(w, t) ==
    IF t.live THEN w.animations[t.char]["IDLE"] # NoAction ELSE t.idle

RemoveAt(s, i) == SubSeq(s, 1, i - 1) \o SubSeq(s, i + 1, Len(s))

\* a variant of AttackTimeout whose callback releases the lock only while the
\* animation set it captured is still the current one
AttackTimeoutLiveOnly(w, i) ==
    LET t == w.timers[i]
        w1 == [w EXCEPT !.isAttacking[t.char] = IF t.live THEN FALSE ELSE @,
                        !.timers = RemoveAt(@, i)]
    IN  IF TimerSeesIdle(w, t) THEN SetAnimation(w1, t.char, "IDLE") ELSE w1

\* the setTimeout callback of performAttack, for pending timer i
AttackTimeout(w, i) ==
    LET t == w.timers[i]
        w1 == [w EXCEPT !.isAttacking[t.char] = FALSE, !.timers = RemoveAt(@, i)]
    IN  IF TimerSeesIdle(w, t) THEN SetAnimation(w1, t.char, "IDLE") ELSE w1

\* a variant of PerformJump that does nothing without a JUMP action
PerformJumpNeedsClip(w, c) ==
    IF w.isJumping[c] \/ w.animations[c]["JUMP"] = NoAction THEN w
    ELSE SetAnimation([w EXCEPT !.isJumping[c] = TRUE, !.velocity[c].y = PlayerJumpSpeed],
                      c, "JUMP")

\* performJump(character)
PerformJump(w, c) ==
    IF w.isJumping[c] THEN w
    ELSE LET w1 == [w EXCEPT !.isJumping[c] = TRUE, !.velocity[c].y = PlayerJumpSpeed]
         IN  IF w.animations[c]["JUMP"] # NoAction THEN SetAnimation(w1, c, "JUMP") ELSE w1


-----------------------------------------------------------------------------
(* Animation classification *)

\* the keyword tests of the classification chains on an upper-cased clip name
KeywordTests(n) ==
    [idle |-> Includes(n, KwIDLE) \/ Includes(n, KwSTOPPED),
     walk |-> Includes(n, KwWALK),
     run |-> Includes(n, KwRUN),
     runOrSprint |-> Includes(n, KwRUN) \/ Includes(n, KwSPRINT),
     jump |-> Includes(n, KwJUMP) \/ Includes(n, KwLEAP),
     attack |-> Includes(n, KwATTACK) \/ Includes(n, KwSHOOT) \/ Includes(n, KwFIRE)]

\* the tests of every pool clip's name (const name = clip.name.toUpperCase())
Tests == [k \in ClipIds |-> KeywordTests(ToUpperCase(ClipPool[k].name))]

UploadRoleOfJumpFirst(k) ==
    IF Tests[k].idle THEN "IDLE"
    ELSE IF Tests[k].walk THEN "WALK"
    ELSE IF Tests[k].jump THEN "JUMP"
    ELSE IF Tests[k].runOrSprint THEN "RUN"
    ELSE IF Tests[k].attack THEN "ATTACK"
    ELSE "NONE"

\* the if / else-if chain of processModelAnimations: the role pool clip k is
\* filed under ("NONE": no branch taken)
UploadRoleOf(k) ==
    IF Tests[k].idle THEN "IDLE"
    ELSE IF Tests[k].walk THEN "WALK"
    ELSE IF Tests[k].runOrSprint THEN "RUN"
    ELSE IF Tests[k].jump THEN "JUMP"
    ELSE IF Tests[k].attack THEN "ATTACK"
    ELSE "NONE"

\* the if / else-if chain of the startup loader callbacks, whose branches also
\* test that the role has no clip yet (map: animationMap.<char>)
StartupRoleOf(k, map) ==
    IF Tests[k].idle /\ map["IDLE"].clip = NoClip THEN "IDLE"
    ELSE IF Tests[k].attack /\ map["ATTACK"].clip = NoClip THEN "ATTACK"
    ELSE IF (Tests[k].walk \/ Tests[k].run) /\ map["WALK"].clip = NoClip THEN "WALK"
    ELSE "NONE"

\* one branch body: animationMap.<char>.R = {clip, duration}; animations.R = mixer.clipAction(clip)
Bind(w, c, role, id, file, i) ==
    [w EXCEPT
        !.animationMap[c][role] = [clip |-> [load |-> id, idx |-> i],
                                   duration |-> ClipPool[file[i]].duration],
        !.animations[c][role] = ClipAction(w.mixer[c], [load |-> id, idx |-> i])]

RECURSIVE UploadForEach(_, _, _, _, _)
\* gltf.animations.forEach of processModelAnimations, from clip i on
UploadForEach(w, c, id, file, i) ==
    IF i > Len(file) THEN w
    ELSE LET role == UploadRoleOf(file[i])
         IN  UploadForEach(IF role = "NONE" THEN w ELSE Bind(w, c, role, id, file, i),
                           c, id, file, i + 1)

\* hasFoundValidAnimation after the loop
HasFoundValidAnimation(file) ==
    \E i \in 1..Len(file) : UploadRoleOf(file[i]) # "NONE"

\* processModelAnimations(gltf, characterType); gltf is load `id` of `file`
ProcessModelAnimations(w, c, id, file) ==
    LET w1 == UploadForEach(w, c, id, file, 1)
    IN  IF HasFoundValidAnimation(file) /\ w1.animations[c]["IDLE"] # NoAction
        THEN [w1 EXCEPT
                !.running = StopAllAction(@, w1.mixer[c]) \cup {w1.animations[c]["IDLE"]},
                !.currentAnimation[c] = "IDLE"]
        ELSE w1

RECURSIVE StartupForEach(_, _, _, _, _)
\* gltf.animations.forEach of a startup loader callback, from clip i on
StartupForEach(w, c, id, file, i) ==
    IF i > Len(file) THEN w
    ELSE LET role == StartupRoleOf(file[i], w.animationMap[c])
         IN  StartupForEach(IF role = "NONE" THEN w ELSE Bind(w, c, role, id, file, i),
                            c, id, file, i + 1)

-----------------------------------------------------------------------------
(* Model loading *)

LoadRequest(id, kind, who, file, oldPlayer, oldEnemy) ==
    [id |-> id, kind |-> kind, who |-> who, file |-> file,
     oldPlayerModel |-> oldPlayer, oldEnemyModel |-> oldEnemy]

\* success callback of a startup load (player: lines 147-328, enemy: 258-317)
StartupLoaded(w, l) ==
    LET c == l.who
        w1 == [w EXCEPT !.model[c] = l.id, !.scene = @ \cup {l.id}, !.mixer[c] = l.id,
                        !.loads = @ \ {l}]
        w2 == StartupForEach(w1, c, l.id, l.file, 1)
        w3 == IF w2.animations[c]["IDLE"] # NoAction
              THEN [w2 EXCEPT !.running = @ \cup {w2.animations[c]["IDLE"]}]
              ELSE w2
    IN  IF c = "player"
        THEN [w3 EXCEPT !.loads = @ \cup {LoadRequest(l.id + 1, "startup", "enemy", l.file, 0, 0)}]
        ELSE w3

\* error callback of any load: the error is reported (with an alert for an
\* upload's player load, line 946), no state changes
LoadFailed(w, l) ==
    [w EXCEPT !.loads = @ \ {l},
              !.alerts = IF l.kind = "upload" /\ l.who = "player"
                         THEN Append(@, "error") ELSE @]

\* a variant of LoadCustomModel that requests the enemy's load along with the player's
LoadCustomModelParallel(w, file) ==
    [w EXCEPT
        !.animations = [c \in Chars |-> EmptyAnimations],
        !.animationMap = [c \in Chars |-> EmptyAnimationMap],
        !.timers = [i \in 1..Len(w.timers) |->
                       IF w.timers[i].live
                       THEN [w.timers[i] EXCEPT !.live = FALSE,
                                                !.idle = TimerSeesIdle(w, w.timers[i])]
                       ELSE w.timers[i]],
        !.loads = @ \cup {LoadRequest(w.nextId, "upload", "player", file,
                                      w.model["player"], w.model["enemy"]),
                          LoadRequest(w.nextId + 1, "upload", "enemy", file,
                                      w.model["player"], w.model["enemy"])},
        !.nextId = @ + 2]

\* loadCustomModel(file)
LoadCustomModel(w, file) ==
    [w EXCEPT
        !.animations = [c \in Chars |-> EmptyAnimations],
        !.animationMap = [c \in Chars |-> EmptyAnimationMap],
        !.timers = [i \in 1..Len(w.timers) |->
                       IF w.timers[i].live
                       THEN [w.timers[i] EXCEPT !.live = FALSE,
                                                !.idle = TimerSeesIdle(w, w.timers[i])]
                       ELSE w.timers[i]],
        !.loads = @ \cup {LoadRequest(w.nextId, "upload", "player", file,
                                      w.model["player"], w.model["enemy"])},
        !.nextId = @ + 2]

\* success callback of an upload's load (player: lines 816-934, enemy: 867-919)
UploadLoaded(w, l) ==
    LET c == l.who
        old == IF c = "player" THEN l.oldPlayerModel ELSE l.oldEnemyModel
        w1 == IF old # 0
              THEN [w EXCEPT
                      !.running = IF w.mixer[c] # 0 THEN StopAllAction(@, w.mixer[c]) ELSE @,
                      !.scene = @ \ {old}]
              ELSE w
        w2 == [w1 EXCEPT !.model[c] = l.id, !.scene = @ \cup {l.id},
                         !.currentAnimation[c] = "NONE", !.mixer[c] = l.id,
                         !.loads = @ \ {l}]
        w3 == ProcessModelAnimations(w2, c, l.id, l.file)
    IN  IF c = "player"
        THEN [w3 EXCEPT !.loads = @ \cup {LoadRequest(l.id + 1, "upload", "enemy", l.file,
                                                      l.oldPlayerModel, l.oldEnemyModel)}]
        ELSE [w3 EXCEPT !.alerts = Append(@, "success")]

-----------------------------------------------------------------------------
(* Per-frame updates *)

\* a variant of MoveAccepted that forgets the arena's depth (|z|)
MoveAcceptedNoDepthTest(x, z) ==
    /\ x * x + z * z > TreeRadius * TreeRadius
    /\ Abs(x) < MapBoundary

\* a variant of MoveAccepted without the tree test
MoveAcceptedNoTreeTest(x, z) ==
    /\ Abs(x) < MapBoundary
    /\ Abs(z) < MapBoundary

\* the acceptance test of a candidate planar position (lines 586-588, 672-674);
\* Math.sqrt(x*x + z*z) > treeRadius is decided on the squares
MoveAccepted(x, z) ==
    /\ x * x + z * z > TreeRadius * TreeRadius
    /\ Abs(x) < MapBoundary
    /\ Abs(z) < MapBoundary

\* a variant of SelectMovementRole without the fall-back from RUN to WALK
SelectMovementRoleNoWalkFallback(w) ==
    IF w.keys["w"] \/ w.keys["s"]
    THEN IF w.keys["shift"]
         THEN IF w.animations["player"]["RUN"] # NoAction
              THEN SetAnimation(w, "player", "RUN")
              ELSE w
         ELSE IF w.animations["player"]["WALK"] # NoAction
         THEN SetAnimation(w, "player", "WALK")
         ELSE w
    ELSE IF w.animations["player"]["IDLE"] # NoAction
    THEN SetAnimation(w, "player", "IDLE")
    ELSE w

\* the role selection shared by the landing branch and the end of updatePlayer
SelectMovementRole(w) ==
    IF w.keys["w"] \/ w.keys["s"]
    THEN IF w.keys["shift"] /\ w.animations["player"]["RUN"] # NoAction
         THEN SetAnimation(w, "player", "RUN")
         ELSE IF w.animations["player"]["WALK"] # NoAction
         THEN SetAnimation(w, "player", "WALK")
         ELSE w
    ELSE IF w.animations["player"]["IDLE"] # NoAction
    THEN SetAnimation(w, "player", "IDLE")
    ELSE w

\* lines 510-519: rotate with A / D
PlayerRotate(w, dt) ==
    [w EXCEPT !.rotation["player"] =
        @ + (IF w.keys["a"] THEN PlayerRotationSpeed * dt ELSE 0)
          - (IF w.keys["d"] THEN PlayerRotationSpeed * dt ELSE 0)]

\* a variant of PlayerJumpStep that steps the height with the old velocity
PlayerJumpStepOldVelocity(w, dt) ==
    IF ~w.isJumping["player"] THEN w
    ELSE LET vy == w.velocity["player"].y - Quot(Gravity * dt, 1000)
             y == w.position["player"].y + Quot(w.velocity["player"].y * dt, 1000)
         IN  IF y <= 0
             THEN [w EXCEPT !.position["player"].y = 0,
                            !.velocity["player"].y = 0,
                            !.isJumping["player"] = FALSE]
             ELSE [w EXCEPT !.position["player"].y = y, !.velocity["player"].y = vy]

\* a variant of PlayerJumpStep whose landing keeps the integrated height
PlayerJumpStepNoClamp(w, dt) ==
    IF ~w.isJumping["player"] THEN w
    ELSE LET vy == w.velocity["player"].y - Quot(Gravity * dt, 1000)
             y == w.position["player"].y + Quot(vy * dt, 1000)
         IN  IF y <= 0
             THEN SelectMovementRole(
                      [w EXCEPT !.position["player"].y = y,
                                !.velocity["player"].y = 0,
                                !.isJumping["player"] = FALSE])
             ELSE [w EXCEPT !.position["player"].y = y, !.velocity["player"].y = vy]

\* lines 521-553: the jump arc and the landing
PlayerJumpStep(w, dt) ==
    IF ~w.isJumping["player"] THEN w
    ELSE LET vy == w.velocity["player"].y - Quot(Gravity * dt, 1000)
             y == w.position["player"].y + Quot(vy * dt, 1000)
         IN  IF y <= 0
             THEN SelectMovementRole(
                      [w EXCEPT !.position["player"].y = 0,
                                !.velocity["player"].y = 0,
                                !.isJumping["player"] = FALSE])
             ELSE [w EXCEPT !.position["player"].y = y, !.velocity["player"].y = vy]

\* a variant of PlayerCurrentSpeed that runs only with a RUN action bound
PlayerCurrentSpeedNeedsRunClip(w) ==
    IF w.keys["shift"] /\ w.animations["player"]["RUN"] # NoAction
    THEN PlayerRunSpeed
    ELSE PlayerMoveSpeed

\* line 568: the speed of the planar move
PlayerCurrentSpeed(w) ==
    IF w.keys["shift"] THEN PlayerRunSpeed ELSE PlayerMoveSpeed

\* lines 555-594: move forward / backward with W / S
PlayerMoveStep(w, dt) ==
    IF ~(w.keys["w"] \/ w.keys["s"]) THEN w
    ELSE LET direction == IF w.keys["w"] THEN -1 ELSE 1
             forwardX == -Sin(w.rotation["player"])
             forwardZ == -Cos(w.rotation["player"])
             vx == Quot(forwardX * PlayerCurrentSpeed(w) * direction, 1000)
             vz == Quot(forwardZ * PlayerCurrentSpeed(w) * direction, 1000)
             newPosX == w.position["player"].x + Quot(vx * dt, 1000)
             newPosZ == w.position["player"].z + Quot(vz * dt, 1000)
             w1 == [w EXCEPT !.velocity["player"].x = vx, !.velocity["player"].z = vz]
         IN  IF MoveAccepted(newPosX, newPosZ)
             THEN [w1 EXCEPT !.position["player"].x = newPosX,
                             !.position["player"].z = newPosZ]
             ELSE w1

\* a variant of PlayerAnimationStep that also selects a role in the air
PlayerAnimationStepWhileJumping(w) ==
    IF ~w.isAttacking["player"]
    THEN SelectMovementRole(w)
    ELSE w

\* lines 596-607: the role selection at the end of updatePlayer
PlayerAnimationStep(w) ==
    IF ~w.isJumping["player"] /\ ~w.isAttacking["player"]
    THEN SelectMovementRole(w)
    ELSE w

\* a variant of UpdatePlayer that keeps processing movement during an attack
UpdatePlayerNoAttackFreeze(w, dt) ==
    IF w.model["player"] = 0 THEN w
    ELSE PlayerAnimationStep(PlayerMoveStep(PlayerJumpStep(PlayerRotate(w, dt), dt), dt))

\* updatePlayer(deltaTime)
UpdatePlayer(w, dt) ==
    IF w.model["player"] = 0 THEN w
    ELSE IF w.isAttacking["player"] /\ ~w.isJumping["player"] THEN w
    ELSE PlayerAnimationStep(PlayerMoveStep(PlayerJumpStep(PlayerRotate(w, dt), dt), dt))

\* lines 624-625: squared length of playerState.position - enemyState.position
DistanceSquared(w) ==
    LET dx == w.position["player"].x - w.position["enemy"].x
        dy == w.position["player"].y - w.position["enemy"].y
        dz == w.position["player"].z - w.position["enemy"].z
    IN  dx * dx + dy * dy + dz * dz

\* lines 636-639: Math.atan2 of the normalized direction's x and z
TargetAngle(w) ==
    LET dx == w.position["player"].x - w.position["enemy"].x
        dz == w.position["player"].z - w.position["enemy"].z
        len == Sqrt(DistanceSquared(w))
    IN  Atan2(Quot(dx * 1000, len), Quot(dz * 1000, len))

\* lines 643-647: the angle difference after the two boundary corrections
AngleDiff(targetAngle, currentAngle) ==
    LET d0 == targetAngle - currentAngle
        d1 == IF d0 > Pi THEN d0 - TwoPi ELSE d0
    IN  IF d1 < -Pi THEN d1 + TwoPi ELSE d1

\* a variant of EnemyAttackBranch that attacks whatever is left of the cooldown
EnemyAttackBranchNoCooldownTest(w) ==
    [PerformAttack(w, "enemy") EXCEPT !.attackCooldown = EnemyCooldownReset]

\* lines 628-633: the attack branch
EnemyAttackBranch(w) ==
    IF w.attackCooldown <= 0
    THEN [PerformAttack(w, "enemy") EXCEPT !.attackCooldown = EnemyCooldownReset]
    ELSE w

\* a variant of EnemyFollowBranch whose enemy runs after the player when it can
EnemyFollowBranchRuns(w, dt) ==
    LET rot == w.rotation["enemy"]
                 + Quot(AngleDiff(TargetAngle(w), w.rotation["enemy"])
                          * Min(EnemyTurnRate * dt, 1000), 1000)
        forwardX == -Sin(rot)
        forwardZ == -Cos(rot)
        vx == Quot(forwardX * EnemyMoveSpeed * (-1), 1000)
        vz == Quot(forwardZ * EnemyMoveSpeed * (-1), 1000)
        newPosX == w.position["enemy"].x + Quot(vx * dt, 1000)
        newPosZ == w.position["enemy"].z + Quot(vz * dt, 1000)
        w1 == [w EXCEPT !.rotation["enemy"] = rot,
                        !.velocity["enemy"].x = vx, !.velocity["enemy"].z = vz]
        w2 == IF MoveAccepted(newPosX, newPosZ)
              THEN [w1 EXCEPT !.position["enemy"].x = newPosX,
                              !.position["enemy"].z = newPosZ]
              ELSE w1
    IN  IF w.animations["enemy"]["RUN"] # NoAction
        THEN SetAnimation(w2, "enemy", "RUN")
        ELSE SetAnimation(w2, "enemy", "WALK")

\* lines 634-680: the follow branch
EnemyFollowBranch(w, dt) ==
    LET rot == w.rotation["enemy"]
                 + Quot(AngleDiff(TargetAngle(w), w.rotation["enemy"])
                          * Min(EnemyTurnRate * dt, 1000), 1000)
        forwardX == -Sin(rot)
        forwardZ == -Cos(rot)
        vx == Quot(forwardX * EnemyMoveSpeed * (-1), 1000)
        vz == Quot(forwardZ * EnemyMoveSpeed * (-1), 1000)
        newPosX == w.position["enemy"].x + Quot(vx * dt, 1000)
        newPosZ == w.position["enemy"].z + Quot(vz * dt, 1000)
        w1 == [w EXCEPT !.rotation["enemy"] = rot,
                        !.velocity["enemy"].x = vx, !.velocity["enemy"].z = vz]
        w2 == IF MoveAccepted(newPosX, newPosZ)
              THEN [w1 EXCEPT !.position["enemy"].x = newPosX,
                              !.position["enemy"].z = newPosZ]
              ELSE w1
    IN  SetAnimation(w2, "enemy", "WALK")

\* a variant of the cooldown update that decrements whatever the value is
EnemyCooldownStepUnconditional(w, dt) ==
    [w EXCEPT !.attackCooldown = @ - dt]

\* lines 686-689: the cooldown update
EnemyCooldownStep(w, dt) ==
    IF w.attackCooldown > 0 THEN [w EXCEPT !.attackCooldown = @ - dt] ELSE w

\* a variant of UpdateEnemy whose enemy keeps following beyond followDistance
UpdateEnemyFollowsWhenFar(w, dt) ==
    IF w.model["enemy"] = 0 \/ w.model["player"] = 0 \/ w.isAttacking["enemy"] THEN w
    ELSE EnemyCooldownStep(
             IF DistanceSquared(w) < EnemyAttackDistance * EnemyAttackDistance
             THEN EnemyAttackBranch(w)
             ELSE EnemyFollowBranch(w, dt),
             dt)

\* a variant of UpdateEnemy whose policy keeps running during the enemy's attack
UpdateEnemyNoAttackLock(w, dt) ==
    IF w.model["enemy"] = 0 \/ w.model["player"] = 0 THEN w
    ELSE EnemyCooldownStep(
             IF DistanceSquared(w) < EnemyAttackDistance * EnemyAttackDistance
             THEN EnemyAttackBranch(w)
             ELSE IF DistanceSquared(w) < EnemyFollowDistance * EnemyFollowDistance
             THEN EnemyFollowBranch(w, dt)
             ELSE SetAnimation(w, "enemy", "IDLE"),
             dt)

\* updateEnemy(deltaTime)
UpdateEnemy(w, dt) ==
    IF w.model["enemy"] = 0 \/ w.model["player"] = 0 \/ w.isAttacking["enemy"] THEN w
    ELSE EnemyCooldownStep(
             IF DistanceSquared(w) < EnemyAttackDistance * EnemyAttackDistance
             THEN EnemyAttackBranch(w)
             ELSE IF DistanceSquared(w) < EnemyFollowDistance * EnemyFollowDistance
             THEN EnemyFollowBranch(w, dt)
             ELSE SetAnimation(w, "enemy", "IDLE"),
             dt)

\* animate(): one frame (mixer.update only advances playback time)
Animate(w, dt) == UpdateEnemy(UpdatePlayer(w, dt), dt)

-----------------------------------------------------------------------------
(* Input handlers *)

\* a variant of OnKeyDown without the isJumping / isAttacking tests of the listener
OnKeyDownUnguarded(w, k) ==
    LET w1 == [w EXCEPT !.keys[k] = TRUE]
    IN  IF k = "space" THEN PerformJump(w1, "player")
        ELSE IF k = "f" THEN PerformAttack(w1, "player")
        ELSE w1

\* a variant of OnKeyDown whose F attacks again during an attack
OnKeyDownAttackAgain(w, k) ==
    LET w1 == [w EXCEPT !.keys[k] = TRUE]
    IN  IF k = "space" /\ ~w.isJumping["player"] /\ ~w.isAttacking["player"]
        THEN PerformJump(w1, "player")
        ELSE IF k = "f" /\ ~w.isJumping["player"]
        THEN PerformAttack(w1, "player")
        ELSE w1

\* the keydown listener
OnKeyDown(w, k) ==
    LET w1 == [w EXCEPT !.keys[k] = TRUE]
    IN  IF k = "space" /\ ~w.isJumping["player"] /\ ~w.isAttacking["player"]
        THEN PerformJump(w1, "player")
        ELSE IF k = "f" /\ ~w.isAttacking["player"] /\ ~w.isJumping["player"]
        THEN PerformAttack(w1, "player")
        ELSE w1

\* the keyup listener
OnKeyUp(w, k) == [w EXCEPT !.keys[k] = FALSE]

\* a variant of OnClick without the isAttacking / isJumping test of the listener
OnClickUnguarded(w) == PerformAttack(w, "player")

\* the click listener
OnClick(w) ==
    IF ~w.isAttacking["player"] /\ ~w.isJumping["player"]
    THEN PerformAttack(w, "player")
    ELSE w

-----------------------------------------------------------------------------
(* Inputs *)

\* frame times (clock.getDelta() is not clamped)
DeltaTimes == {500, 1000}

\* frame times of the arena scenarios
ArenaDeltaTimes == {100, 500, 1000}

\* the keys pressed in the loading scenarios
MainKeys == {"w", "space", "f"}

\* models/character.glb: an idle, a walk and an attack clip
DefaultFile == <<1, 3, 6>>

\* other model files: all five roles; an attack clip only; no matching clip
FullFile == <<1, 3, 4, 5, 6>>
AttackOnlyFile == <<6>>
StaticFile == <<8>>

\* an idle clip and an attack clip of duration 0
ShootFile == <<1, 9>>

StartupFiles == {DefaultFile, AttackOnlyFile}
UploadFiles == {FullFile, StaticFile}
ArenaFiles == {FullFile, DefaultFile}

RECURSIVE SeqsUpTo(_, _)
SeqsUpTo(S, n) ==
    IF n = 0 THEN {<<>>}
    ELSE LET shorter == SeqsUpTo(S, n - 1)
         IN  shorter \cup {Append(q, x) : q \in shorter, x \in S}

\* every clip list of at most MaxClips pool clips
ClipLists == SeqsUpTo(ClipIds, MaxClips)

-----------------------------------------------------------------------------
(* State machine *)

\* the last handler: its kind, the key or character it is about, the frame time,
\* the load it completes or starts and that load's file
Event(type, key, dt, id, file) ==
    [type |-> type, key |-> key, dt |-> dt, id |-> id, file |-> file]

\* the program state after a handler returned world w
Apply(w) ==
    /\ position' = w.position
    /\ rotation' = w.rotation
    /\ velocity' = w.velocity
    /\ currentAnimation' = w.currentAnimation
    /\ isAttacking' = w.isAttacking
    /\ isJumping' = w.isJumping
    /\ attackCooldown' = w.attackCooldown
    /\ animations' = w.animations
    /\ animationMap' = w.animationMap
    /\ mixer' = w.mixer
    /\ model' = w.model
    /\ scene' = w.scene
    /\ running' = w.running
    /\ keys' = w.keys
    /\ timers' = w.timers
    /\ loads' = w.loads
    /\ nextId' = w.nextId
    /\ calls' = w.calls
    /\ alerts' = w.alerts

\* the program state is world w
StateIs(w) ==
    /\ position = w.position
    /\ rotation = w.rotation
    /\ velocity = w.velocity
    /\ currentAnimation = w.currentAnimation
    /\ isAttacking = w.isAttacking
    /\ isJumping = w.isJumping
    /\ attackCooldown = w.attackCooldown
    /\ animations = w.animations
    /\ animationMap = w.animationMap
    /\ mixer = w.mixer
    /\ model = w.model
    /\ scene = w.scene
    /\ running = w.running
    /\ keys = w.keys
    /\ timers = w.timers
    /\ loads = w.loads
    /\ nextId = w.nextId
    /\ calls = w.calls
    /\ alerts = w.alerts

\* module evaluation: lines 84-132, 145 (the startup load is requested), 346-354
Constructed(file) ==
    [position |-> [c \in Chars |-> IF c = "player" THEN [x |-> -800, y |-> 0, z |-> -800]
                                   ELSE [x |-> 1000, y |-> 0, z |-> 1000]],
     rotation |-> [c \in Chars |-> 0],
     velocity |-> [c \in Chars |-> [x |-> 0, y |-> 0, z |-> 0]],
     currentAnimation |-> [c \in Chars |-> "IDLE"],
     isAttacking |-> [c \in Chars |-> FALSE],
     isJumping |-> [c \in Chars |-> FALSE],
     attackCooldown |-> 0,
     animations |-> [c \in Chars |-> EmptyAnimations],
     animationMap |-> [c \in Chars |-> EmptyAnimationMap],
     mixer |-> [c \in Chars |-> 0],
     model |-> [c \in Chars |-> 0],
     scene |-> {},
     running |-> {},
     keys |-> [k \in KeyNames |-> FALSE],
     timers |-> <<>>,
     loads |-> {LoadRequest(1, "startup", "player", file, 0, 0)},
     nextId |-> 3,
     calls |-> <<>>,
     alerts |-> <<>>]

\* what an upload request finds and is about to replace
Snapshot(w) == [model |-> w.model, animations |-> w.animations]

InitWith(file) ==
    /\ StateIs(Constructed(file))
    /\ before = Snapshot(Constructed(file))
    /\ startupFile = file
    /\ events = 0
    /\ ev = Event("init", "", 0, 0, <<>>)

Init == \E file \in StartupFiles : InitWith(file)

KeyDown(k) ==
    /\ events < MaxEvents
    /\ Apply(OnKeyDown(World, k))
    /\ events' = events + 1
    /\ ev' = Event("keydown", k, 0, 0, <<>>)
    /\ UNCHANGED <<startupFile, before>>

KeyUp(k) ==
    /\ keys[k]
    /\ Apply(OnKeyUp(World, k))
    /\ ev' = Event("keyup", k, 0, 0, <<>>)
    /\ UNCHANGED <<startupFile, events, before>>

Click ==
    /\ events < MaxEvents
    /\ Apply(OnClick(World))
    /\ events' = events + 1
    /\ ev' = Event("click", "", 0, 0, <<>>)
    /\ UNCHANGED <<startupFile, before>>

\* one requestAnimationFrame callback
Tick(dt) ==
    /\ events < MaxEvents
    /\ Apply(Animate(World, dt))
    /\ events' = events + 1
    /\ ev' = Event("tick", "", dt, 0, <<>>)
    /\ UNCHANGED <<startupFile, before>>

Timeout(i) ==
    /\ Apply(AttackTimeout(World, i))
    /\ ev' = Event("timeout", timers[i].char, 0, 0, <<>>)
    /\ UNCHANGED <<startupFile, events, before>>

StartupLoad(l) ==
    /\ l.kind = "startup"
    /\ Apply(StartupLoaded(World, l))
    /\ ev' = Event("startupLoaded", l.who, 0, l.id, l.file)
    /\ UNCHANGED <<startupFile, events, before>>

LoadError(l) ==
    /\ Apply(LoadFailed(World, l))
    /\ ev' = Event("loadError", l.who, 0, l.id, l.file)
    /\ UNCHANGED <<startupFile, events, before>>

\* a file is dropped or selected; an upload starts two loads and counts twice
Upload(file) ==
    /\ events + 2 <= MaxEvents
    /\ Apply(LoadCustomModel(World, file))
    /\ events' = events + 2
    /\ ev' = Event("upload", "", 0, nextId, file)
    /\ before' = Snapshot(World)
    /\ UNCHANGED startupFile

UploadLoad(l) ==
    /\ l.kind = "upload"
    /\ Apply(UploadLoaded(World, l))
    /\ ev' = Event("uploadLoaded", l.who, 0, l.id, l.file)
    /\ UNCHANGED <<startupFile, events, before>>

Next ==
    \/ \E k \in MainKeys : KeyDown(k)
    \/ \E k \in MainKeys : KeyUp(k)
    \/ Click
    \/ \E dt \in DeltaTimes : Tick(dt)
    \/ \E i \in 1..Len(timers) : Timeout(i)
    \/ \E l \in loads : StartupLoad(l)
    \/ \E l \in loads : LoadError(l)
    \/ \E file \in UploadFiles : Upload(file)
    \/ \E l \in loads : UploadLoad(l)

\* The whole program from module evaluation on, with few keys and frame times
Spec == Init /\ [][Next]_vars

\* a timer armed by setTimeout fires once its delay has passed
TimersFire == \E i \in 1..Len(timers) : Timeout(i)

\* The whole program, with the browser running every armed timer
SpecLive == Init /\ [][Next]_vars /\ WF_vars(TimersFire)

\* one requestAnimationFrame callback, not counted as an event: the browser
\* keeps calling animate() for as long as the page is open
Frame(dt) ==
    /\ Apply(Animate(World, dt))
    /\ ev' = Event("tick", "", dt, 0, <<>>)
    /\ UNCHANGED <<startupFile, events, before>>

\* the browser runs a frame
FramesRun == \E dt \in ArenaDeltaTimes : Frame(dt)

\* a pending startup load ends, with its success or its error callback
LoadsEnd == \E l \in loads : StartupLoad(l) \/ LoadError(l)

NextJump ==
    \/ KeyDown("space")
    \/ KeyUp("space")
    \/ \E dt \in ArenaDeltaTimes : Frame(dt)
    \/ \E l \in loads : StartupLoad(l)
    \/ \E l \in loads : LoadError(l)

\* Jumping from module evaluation on: Space, the startup loads and frames that
\* never stop; every pending load ends one way or the other
SpecJump == Init /\ [][NextJump]_vars /\ WF_vars(FramesRun) /\ WF_vars(LoadsEnd)

-----------------------------------------------------------------------------
(* Classification: every clip list, loaded at startup and then uploaded *)

InitClassify == \E file \in ClipLists : InitWith(file)

\* the user uploads a copy of models/character.glb once the startup loads are done
UploadCopy ==
    /\ loads = {}
    /\ nextId = 3
    /\ Upload(startupFile)

NextClassify ==
    \/ \E l \in loads : StartupLoad(l)
    \/ UploadCopy
    \/ \E l \in loads : UploadLoad(l)

SpecClassify == InitClassify /\ [][NextClassify]_vars

-----------------------------------------------------------------------------
(* The arena: play after the models are loaded *)

\* the only pending load of world w
PendingLoad(w) == CHOOSE l \in w.loads : TRUE

\* both startup loads of models/character.glb have completed
StartupDone ==
    LET w1 == StartupLoaded(Constructed(DefaultFile), PendingLoad(Constructed(DefaultFile)))
    IN  StartupLoaded(w1, PendingLoad(w1))

\* then `file` was uploaded and both of its loads have completed
UploadDone(file) ==
    LET w1 == LoadCustomModel(StartupDone, file)
        w2 == UploadLoaded(w1, PendingLoad(w1))
    IN  [UploadLoaded(w2, PendingLoad(w2)) EXCEPT !.calls = <<>>, !.alerts = <<>>]

\* the characters' models come from models/character.glb or from an upload
Loaded(file) == IF file = DefaultFile THEN StartupDone ELSE UploadDone(file)

\* the velocity left by the last planar move of a character heading rot
WalkVelocity(rot, speed) ==
    [x |-> Quot(-Sin(rot) * speed * (-1), 1000), y |-> 0,
     z |-> Quot(-Cos(rot) * speed * (-1), 1000)]

\* where earlier play (counted as one event) has taken the characters: the player walked to p heading
\* prot, the enemy followed to e heading erot, cd is left of the attack cooldown
Placement(p, prot, e, erot, cd) ==
    [player |-> [x |-> p[1], y |-> 0, z |-> p[2]], prot |-> prot,
     enemy |-> [x |-> e[1], y |-> 0, z |-> e[2]], erot |-> erot, cooldown |-> cd]

\* out of the enemy's reach, as constructed
Apart == Placement(<<-800, -800>>, 0, <<1000, 1000>>, 0, 0)

\* the enemy next to the player, inside its attack distance
Adjacent == Placement(<<-800, -800>>, 0, <<-800, -610>>, Pi, 0)

\* the tree between the player and the following enemy
AcrossTree == Placement(<<0, -300>>, 0, <<0, 200>>, Pi, 0)

\* both at the arena's edge, the enemy still heading for the edge
AtEdge == Placement(<<-800, 2400>>, 0, <<-300, 2490>>, 0, 0)

\* the enemy's heading after the player ran around it twice (lines 646-649 add
\* the turns up: the heading is never brought back into -Pi..Pi)
Circled == Placement(<<-350, -800>>, Pi, <<-300, -300>>, 8514, 0)

Placements == {Apart, Adjacent, AcrossTree, AtEdge, Circled}

Placed(w, s) ==
    LET followed == IF s = Apart THEN w ELSE SetAnimation(w, "enemy", "WALK")
    IN  [followed EXCEPT
              !.position = [player |-> s.player, enemy |-> s.enemy],
              !.rotation = [player |-> s.prot, enemy |-> s.erot],
              !.velocity = [player |-> IF s = Apart THEN @["player"]
                                       ELSE WalkVelocity(s.prot, PlayerMoveSpeed),
                            enemy |-> IF s = Apart THEN @["enemy"]
                                      ELSE WalkVelocity(s.erot, EnemyMoveSpeed)],
              !.attackCooldown = s.cooldown,
              !.calls = <<>>]

\* the uploaded models played in every placement, and two more next to the enemy
ArenaSetups ==
    (ArenaFiles \X Placements) \cup ({ShootFile, StaticFile} \X {Adjacent})

\* models/character.glb has loaded for the player, the enemy's load is pending
EnemyLoading ==
    StartupLoaded(Constructed(DefaultFile), PendingLoad(Constructed(DefaultFile)))

\* the worlds in which a model is still missing while the frames already run
StillLoading == {Constructed(DefaultFile), EnemyLoading}

InitArena ==
    /\ \/ \E setup \in ArenaSetups :
            /\ StateIs(Placed(Loaded(setup[1]), setup[2]))
            /\ before = Snapshot(IF setup[1] = DefaultFile THEN Constructed(DefaultFile)
                                 ELSE StartupDone)
       \/ \E w \in StillLoading :
            /\ StateIs(w)
            /\ before = Snapshot(Constructed(DefaultFile))
    /\ startupFile = DefaultFile
    /\ events = 1
    /\ ev = Event("init", "", 0, 0, <<>>)

NextArena ==
    \/ \E k \in KeyNames : KeyDown(k)
    \/ \E k \in KeyNames : KeyUp(k)
    \/ Click
    \/ \E dt \in ArenaDeltaTimes : Tick(dt)
    \/ \E i \in 1..Len(timers) : Timeout(i)

\* Play from the placements on, with every key and with short and long frames
SpecArena == InitArena /\ [][NextArena]_vars

-----------------------------------------------------------------------------
(* The documented classification contract, stated independently of the code *)

RoleOrder == <<"IDLE", "WALK", "RUN", "JUMP", "ATTACK">>

KeywordSet(role) ==
    CASE role = "IDLE" -> {KwIDLE, KwSTOPPED}
      [] role = "WALK" -> {KwWALK}
      [] role = "RUN" -> {KwRUN, KwSPRINT}
      [] role = "JUMP" -> {KwJUMP, KwLEAP}
      [] role = "ATTACK" -> {KwATTACK, KwSHOOT, KwFIRE}

\* the roles whose keyword set pool clip k's upper-cased name matches
Matches ==
    [k \in ClipIds |->
        {role \in Roles :
            \E kw \in KeywordSet(role) : Includes(ToUpperCase(ClipPool[k].name), kw)}]

\* the earliest role, in the documented order, that clip k matches
EarliestRole(k) ==
    IF Matches[k] = {} THEN "NONE"
    ELSE RoleOrder[CHOOSE i \in 1..5 :
                       /\ RoleOrder[i] \in Matches[k]
                       /\ \A j \in 1..(i - 1) : RoleOrder[j] \notin Matches[k]]

\* character c's upload callback has just run, for a load of `file`
JustUploaded(c, file) == ev.type = "uploadLoaded" /\ ev.key = c /\ ev.file = file

\* the indices of the clips of `file` filed under `role` by the documented order
ClipsOfRole(file, role) == {i \in 1..Len(file) : EarliestRole(file[i]) = role}

SetMin(S) == CHOOSE x \in S : \A y \in S : x <= y

SetMax(S) == CHOOSE x \in S : \A y \in S : x >= y

Unbound(c) == \A role \in Roles : animations[c][role] = NoAction

-----------------------------------------------------------------------------
(* C1 (as claimed): after an upload's classification of a clip list, every   *)
(* role that some clip classifies to is bound to the FIRST such clip in      *)
(* source order; later clips of the same role never replace the binding.     *)
(* processModelAnimations has no "already bound" test, so the last one wins. *)
C1_FirstMatchWins ==
    \A c \in Chars : \A role \in Roles :
        (JustUploaded(c, ev.file) /\ ClipsOfRole(ev.file, role) # {})
            => animationMap[c][role].clip =
                   [load |-> ev.id, idx |-> SetMin(ClipsOfRole(ev.file, role))]

(* C2: on upload, a clip is filed under the earliest role, in the order      *)
(* IDLE, WALK, RUN, JUMP, ATTACK, whose keyword set its name matches: every  *)
(* binding made by the upload holds a clip whose earliest role is that role, *)
(* and the last clip of each role holds that role's binding (RUN_JUMP is     *)
(* bound to RUN, never to JUMP).                                             *)
C2_EarliestRoleWins ==
    \A c \in Chars : \A role \in Roles :
        JustUploaded(c, ev.file) =>
            LET bound == animationMap[c][role].clip
                mine == ClipsOfRole(ev.file, role)
            IN  /\ (bound.load = ev.id) => bound.idx \in mine
                /\ (mine # {}) => bound = [load |-> ev.id, idx |-> SetMax(mine)]

\* a clip matching RUN and JUMP was uploaded and is bound to RUN, JUMP staying unbound
C2_Witness ==
    \E c \in Chars : \E i \in 1..Len(ev.file) :
        /\ JustUploaded(c, ev.file)
        /\ Matches[ev.file[i]] = {"RUN", "JUMP"}
        /\ animationMap[c]["RUN"].clip = [load |-> ev.id, idx |-> i]
        /\ animations[c]["JUMP"] = NoAction

(* C3 (as claimed): after an upload whose clip list is empty or has no       *)
(* matching clip, every role of that character is unbound, none of its       *)
(* actions is playing and CurrentRole is 'NONE'.  An upload requested while  *)
(* an earlier load is still in flight breaks this: the earlier callback      *)
(* files its clips into the animation set the upload had just cleared.       *)
C3_NoMatchLeavesNothing ==
    \A c \in Chars :
        (JustUploaded(c, ev.file) /\ \A i \in 1..Len(ev.file) : Matches[ev.file[i]] = {})
            => /\ Unbound(c)
               /\ currentAnimation[c] = "NONE"
               /\ \A role \in Roles : animations[c][role] \notin running
               /\ \A a \in running : a.mixer # mixer[c]

(* C4 (as claimed): two consecutive setAnimation(c, X) calls for a bound X   *)
(* produce exactly one play-start, and the second call changes nothing.      *)
C4_ExactlyOnePlayStart ==
    \A c \in Chars : \A role \in Roles :
        (animations[c][role] # NoAction) =>
            LET w1 == SetAnimation(World, c, role)
                w2 == SetAnimation(w1, c, role)
            IN  /\ Cardinality({i \in 1..2 : w2.calls[i].result = "played"}) = 1
                /\ w2.running = w1.running
                /\ w2.currentAnimation = w1.currentAnimation

(* C4 (amended): the second of two consecutive setAnimation(c, X) calls for  *)
(* a bound X is a no-op, and the pair produces one play-start when X was not *)
(* CurrentRole before the first call and none when it already was; the same  *)
(* holds of the calls the handlers really make.                              *)
C4_SecondCallIsNoOp ==
    /\ \A c \in Chars : \A role \in Roles :
        (animations[c][role] # NoAction) =>
            LET w1 == SetAnimation(World, c, role)
                w2 == SetAnimation(w1, c, role)
            IN  /\ w2.calls[2].result = "same"
                /\ w2.calls[1].result =
                       (IF currentAnimation[c] = role THEN "same" ELSE "played")
                /\ w2.running = w1.running
                /\ w2.currentAnimation = w1.currentAnimation
                /\ w1.currentAnimation[c] = role
    /\ \A i \in 1..(Len(calls) - 1) :
        (calls[i].char = calls[i + 1].char /\ calls[i].role = calls[i + 1].role
            /\ calls[i].result # "unbound")
            => calls[i + 1].result = "same"

\* a handler requested the same bound role twice in a row: played, then skipped
C4_Witness ==
    /\ Len(calls) >= 2
    /\ calls[1].char = calls[2].char
    /\ calls[1].role = calls[2].role
    /\ calls[1].result = "played"
    /\ calls[2].result = "same"

(* C5: setAnimation for a role with no binding changes neither CurrentRole,  *)
(* the playing actions nor any flag, in every reachable state (also before   *)
(* any model is loaded and while an upload is in flight).                    *)
C5_UnboundRoleIsNoOp ==
    \A c \in Chars : \A role \in Roles :
        (animations[c][role] = NoAction) =>
            LET w1 == SetAnimation(World, c, role)
            IN  /\ w1.currentAnimation = currentAnimation
                /\ w1.running = running
                /\ w1.isAttacking = isAttacking
                /\ w1.isJumping = isJumping
                /\ w1.animations = animations
                /\ w1.calls = <<[char |-> c, role |-> role, result |-> "unbound"]>>

\* a frame requested an unbound role while an upload's load was in flight
C5_Witness ==
    /\ ev.type = "tick"
    /\ \E l \in loads : l.kind = "upload"
    /\ \E i \in 1..Len(calls) : calls[i].result = "unbound"

(* C7 (as claimed): while an attack's timer is pending isAttacking is true;  *)
(* when the timer fires isAttacking becomes false and, if the IDLE role is   *)
(* bound, a revert to IDLE is requested, exactly once per attack.  The timer *)
(* tests the animation set it captured when the attack started, so after an  *)
(* upload replaced that set a bound IDLE gets no revert.                     *)
C7_AttackLock ==
    /\ \A i \in 1..Len(timers) : isAttacking[timers[i].char]
    /\ \A i, j \in 1..Len(timers) : (timers[i].char = timers[j].char) => i = j
    /\ (ev.type = "timeout") =>
          /\ ~isAttacking[ev.key]
          /\ Len(calls) <= 1
          /\ (animations[ev.key]["IDLE"] # NoAction) =>
                 /\ Len(calls) = 1
                 /\ calls[1].char = ev.key
                 /\ calls[1].role = "IDLE"

-----------------------------------------------------------------------------
(* Frames, as the documented contract describes them *)

\* this step is one frame
IsTick == ev'.type = "tick"

\* updatePlayer gets past its guards in this frame
PlayerUpdated == model["player"] # 0 /\ ~(isAttacking["player"] /\ ~isJumping["player"])

\* the enemy policy is evaluated in this frame
EnemyEvaluated == model["enemy"] # 0 /\ model["player"] # 0 /\ ~isAttacking["enemy"]

\* squared 3D distance from the enemy to the player the frame has just moved
EnemyDistanceSquared ==
    LET dx == position'["player"].x - position["enemy"].x
        dy == position'["player"].y - position["enemy"].y
        dz == position'["player"].z - position["enemy"].z
    IN  dx * dx + dy * dy + dz * dz

InAttackBand == EnemyDistanceSquared < EnemyAttackDistance * EnemyAttackDistance

InFollowBand ==
    /\ EnemyDistanceSquared >= EnemyAttackDistance * EnemyAttackDistance
    /\ EnemyDistanceSquared < EnemyFollowDistance * EnemyFollowDistance

\* a candidate the collision rule rejects: inside the tree or out of the arena
Blocked(x, z) ==
    \/ x * x + z * z <= TreeRadius * TreeRadius
    \/ Abs(x) >= MapBoundary
    \/ Abs(z) >= MapBoundary

\* character c's candidate planar position: a step of dt at velocity v from p
Candidate(p, v, dt) == [x |-> p.x + Quot(v.x * dt, 1000), z |-> p.z + Quot(v.z * dt, 1000)]

\* the character ends the frame on the candidate, or where it was when blocked
CollisionRule(c) ==
    LET cand == Candidate(position[c], velocity'[c], ev'.dt)
    IN  IF Blocked(cand.x, cand.z)
        THEN position'[c].x = position[c].x /\ position'[c].z = position[c].z
        ELSE position'[c].x = cand.x /\ position'[c].z = cand.z

(* C6: once a player jump has started from height 0 with the jump speed,     *)
(* every frame takes gravity*elapsed off the vertical velocity and adds the  *)
(* new velocity*elapsed to the height; isJumping stays true until the first  *)
(* frame whose integrated height is <= 0, which clamps the height to 0,      *)
(* zeroes the vertical velocity and clears isJumping.                        *)
C6_JumpArc ==
    [][ /\ (~isJumping["player"] /\ isJumping'["player"]) =>
              /\ position["player"].y = 0
              /\ position'["player"].y = 0
              /\ velocity'["player"].y = PlayerJumpSpeed
        /\ (isJumping["player"] /\ ~isJumping'["player"]) => IsTick
        /\ (IsTick /\ isJumping["player"] /\ model["player"] # 0) =>
              LET vy == velocity["player"].y - Quot(Gravity * ev'.dt, 1000)
                  y == position["player"].y + Quot(vy * ev'.dt, 1000)
              IN  IF y <= 0
                  THEN /\ position'["player"].y = 0
                       /\ velocity'["player"].y = 0
                       /\ ~isJumping'["player"]
                  ELSE /\ position'["player"].y = y
                       /\ velocity'["player"].y = vy
                       /\ isJumping'["player"]
      ]_vars

\* the player is in the air after two frames of a jump: past the top, still up
C6_Witness ==
    /\ ev.type = "tick"
    /\ isJumping["player"]
    /\ position["player"].y > 0
    /\ velocity["player"].y < PlayerJumpSpeed - Quot(Gravity * ev.dt, 1000)

(* C8: in every frame that computes a candidate planar position, for the     *)
(* player (W or S held) and for the enemy (follow band): a candidate within  *)
(* the tree radius of the origin, or with |x| >= 25 or |z| >= 25, leaves x   *)
(* and z as they were; any other candidate becomes the new x and z.          *)
C8_CollisionRule ==
    [][ IsTick =>
          /\ (PlayerUpdated /\ (keys["w"] \/ keys["s"])) => CollisionRule("player")
          /\ (EnemyEvaluated /\ InFollowBand) => CollisionRule("enemy")
      ]_vars

\* a frame of 0.5 s left both characters where they were, on either side of the tree
C8_Witness ==
    /\ ev.type = "tick"
    /\ keys["w"]
    /\ ~isAttacking["player"]
    /\ \A c \in Chars :
          /\ position[c] = AcrossTree[c]
          /\ Blocked(Candidate(position[c], velocity[c], ev.dt).x,
                     Candidate(position[c], velocity[c], ev.dt).z)
          /\ velocity[c].z # 0

(* C9: in every frame that evaluates the enemy with the 3D distance to the   *)
(* player (jump height included) below attackDistance, the enemy's position  *)
(* and heading stay as they were, an attack starts only if the cooldown was  *)
(* <= 0, and then the cooldown is reset to 2.0 (less this frame's time, the  *)
(* frame's own decrement).                                                   *)
C9_AttackBand ==
    [][ (IsTick /\ EnemyEvaluated /\ InAttackBand) =>
          /\ position'["enemy"] = position["enemy"]
          /\ rotation'["enemy"] = rotation["enemy"]
          /\ isAttacking'["enemy"] => attackCooldown <= 0
          /\ (attackCooldown <= 0) => attackCooldown' = EnemyCooldownReset - ev'.dt
          /\ (attackCooldown > 0) => attackCooldown' = attackCooldown - ev'.dt
          /\ (attackCooldown <= 0 /\ animations["enemy"]["ATTACK"] # NoAction)
                => isAttacking'["enemy"]
      ]_vars

\* the enemy next to the player has just started an attack and reset its cooldown
C9_Witness ==
    /\ ev.type = "tick"
    /\ isAttacking["enemy"]
    /\ attackCooldown = EnemyCooldownReset - ev.dt
    /\ position["enemy"] = Adjacent.enemy
    /\ rotation["enemy"] = Adjacent.erot
    /\ \E i \in 1..Len(timers) : timers[i].char = "enemy"

\* the angle between heading a and target heading t, the shorter way around
HeadingError(a, t) == Min((a - t) % TwoPi, TwoPi - ((a - t) % TwoPi))

\* the heading towards the player the frame has just moved
TargetHeading == TargetAngle([World EXCEPT !.position["player"] = position'["player"]])

(* C10 (as claimed): in every frame that evaluates the enemy with            *)
(* attackDistance <= distance < followDistance, the enemy turns toward the   *)
(* player (its heading gets no further from the player's direction), steps   *)
(* along its new heading at moveSpeed subject to the collision rule,         *)
(* requests WALK and starts no attack.  A heading wound up by the player's   *)
(* circling is turned away from the player (the wrap of C12).                *)
C10_FollowBand ==
    [][ (IsTick /\ EnemyEvaluated /\ InFollowBand) =>
          /\ HeadingError(rotation'["enemy"], TargetHeading)
                <= HeadingError(rotation["enemy"], TargetHeading)
          /\ velocity'["enemy"].x = Quot(Sin(rotation'["enemy"]) * EnemyMoveSpeed, 1000)
          /\ velocity'["enemy"].z = Quot(Cos(rotation'["enemy"]) * EnemyMoveSpeed, 1000)
          /\ CollisionRule("enemy")
          /\ Len(calls') >= 1
          /\ calls'[Len(calls')].char = "enemy"
          /\ calls'[Len(calls')].role = "WALK"
          /\ ~isAttacking'["enemy"]
          /\ timers' = timers
      ]_vars

InIdleBand == EnemyDistanceSquared >= EnemyFollowDistance * EnemyFollowDistance

(* C11: in every frame that evaluates the enemy with the distance to the     *)
(* player at or beyond followDistance, the enemy requests the IDLE role, its *)
(* position and heading stay as they were and no attack is started.          *)
C11_IdleBand ==
    [][ (IsTick /\ EnemyEvaluated /\ InIdleBand) =>
          /\ position'["enemy"] = position["enemy"]
          /\ rotation'["enemy"] = rotation["enemy"]
          /\ Len(calls') >= 1
          /\ calls'[Len(calls')].char = "enemy"
          /\ calls'[Len(calls')].role = "IDLE"
          /\ ~isAttacking'["enemy"]
          /\ timers' = timers
      ]_vars

\* a frame found the player out of reach and the enemy asked for IDLE where it stood
C11_Witness ==
    /\ ev.type = "tick"
    /\ model["enemy"] # 0 /\ model["player"] # 0
    /\ DistanceSquared(World) >= EnemyFollowDistance * EnemyFollowDistance
    /\ position["enemy"] = Apart.enemy
    /\ rotation["enemy"] = Apart.erot
    /\ Len(calls) >= 1
    /\ calls[Len(calls)] = [char |-> "enemy", role |-> "IDLE", result |-> "same"]

\* the signed angle from heading a to target heading t, the shorter way around
ShorterWay(a, t) == ((t - a + Pi) % TwoPi) - Pi

(* C12 (as claimed): in every enemy follow frame, whatever the enemy's       *)
(* heading has become and whatever the target heading is, the rotation step  *)
(* has magnitude at most pi and goes the shorter way around from the current *)
(* to the target heading.  The heading is never brought back into -pi..pi    *)
(* and one correction by 2*pi is applied, so a wound-up heading fails this.  *)
C12_ShorterArc ==
    [][ (IsTick /\ EnemyEvaluated /\ InFollowBand) =>
          LET step == rotation'["enemy"] - rotation["enemy"]
              short == ShorterWay(rotation["enemy"], TargetHeading)
          IN  /\ Abs(step) <= Pi
              /\ Abs(step) <= Abs(short)
              /\ step * short >= 0 \/ Abs(short) = Pi
      ]_vars

\* this step is the error callback of a load of the latest upload
UploadFails == ev'.type = "loadError" /\ ev'.id >= 3 /\ ev'.id >= nextId - 2

(* C13 (as claimed): when a load of an uploaded model fails, a character     *)
(* whose model is still the one the upload found keeps that model in the     *)
(* scene, the error callback changes neither CurrentRole nor the flags, and  *)
(* every role that was playable when the upload was requested is still       *)
(* playable.  loadCustomModel clears the bindings when the upload is         *)
(* requested and the error callbacks do not restore them.                    *)
C13_FailedUploadKeepsBindings ==
    [][ UploadFails =>
          /\ currentAnimation' = currentAnimation
          /\ isAttacking' = isAttacking
          /\ isJumping' = isJumping
          /\ model' = model
          /\ scene' = scene
          /\ \A c \in Chars :
                (model[c] # 0 /\ model[c] = before.model[c]) =>
                    /\ model'[c] \in scene'
                    /\ \A role \in Roles :
                          (before.animations[c][role] # NoAction)
                              => animations'[c][role] = before.animations[c][role]
      ]_vars

\* this step starts a jump of the player: it is launched or JUMP is requested
PlayerJumpStarts ==
    \/ ~isJumping["player"] /\ isJumping'["player"]
    \/ /\ ev'.type \in {"keydown", "click"}
       /\ \/ velocity'["player"].y # velocity["player"].y
          \/ \E i \in 1..Len(calls') : calls'[i].char = "player" /\ calls'[i].role = "JUMP"

\* this step starts an attack of the player: the lock is set, a timer is armed
\* or ATTACK is requested
PlayerAttackStarts ==
    \/ ~isAttacking["player"] /\ isAttacking'["player"]
    \/ Len(timers') > Len(timers) /\ timers'[Len(timers')].char = "player"
    \/ \E i \in 1..Len(calls') : calls'[i].char = "player" /\ calls'[i].role = "ATTACK"

(* C14: for the player, no jump starts while isJumping or isAttacking is     *)
(* true and no attack starts while isAttacking or isJumping is true,         *)
(* whatever the sequence of key presses, clicks, frames and timers.          *)
C14_ExclusiveStart ==
    [][ /\ PlayerJumpStarts => ~isJumping["player"] /\ ~isAttacking["player"]
        /\ PlayerAttackStarts => ~isAttacking["player"] /\ ~isJumping["player"]
      ]_vars

\* F was pressed while the player was in the air, with an ATTACK clip bound:
\* no attack has started
C14_Witness ==
    /\ ev.type = "keydown"
    /\ ev.key = "f"
    /\ isJumping["player"]
    /\ animations["player"]["ATTACK"] # NoAction
    /\ ~isAttacking["player"]
    /\ timers = <<>>

\* the player's planar velocity in this frame is its heading times speed
PlayerMovesAt(speed) ==
    LET direction == IF keys["w"] THEN -1 ELSE 1
    IN  /\ velocity'["player"].x
              = Quot(-Sin(rotation'["player"]) * speed * direction, 1000)
        /\ velocity'["player"].z
              = Quot(-Cos(rotation'["player"]) * speed * direction, 1000)

\* this frame computes a candidate move of the player
PlayerMoves == IsTick /\ PlayerUpdated /\ (keys["w"] \/ keys["s"])

(* C15 (as claimed): in every player frame with W or S held the speed of the *)
(* candidate move is runSpeed only if Shift is held and a RUN animation is   *)
(* bound for the player, and moveSpeed in every other case.                  *)
C15_RunNeedsRunClip ==
    [][ PlayerMoves =>
          PlayerMovesAt(IF keys["shift"] /\ animations["player"]["RUN"] # NoAction
                        THEN PlayerRunSpeed ELSE PlayerMoveSpeed)
      ]_vars

(* C15 (amended): in every player frame with W or S held the speed of the    *)
(* candidate move is runSpeed when Shift is held, whether or not a RUN       *)
(* animation is bound, and moveSpeed when it is not; the RUN binding only    *)
(* decides between the RUN and WALK roles.                                   *)
C15_ShiftRuns ==
    [][ PlayerMoves =>
          /\ PlayerMovesAt(IF keys["shift"] THEN PlayerRunSpeed ELSE PlayerMoveSpeed)
          /\ (~isJumping'["player"] /\ ~isAttacking["player"] /\ keys["shift"]
                /\ animations["player"]["RUN"] = NoAction
                /\ animations["player"]["WALK"] # NoAction)
                => currentAnimation'["player"] = "WALK"
      ]_vars

\* a frame moved the player at runSpeed under the WALK role: Shift and W held,
\* no RUN animation bound
C15_Witness ==
    /\ ev.type = "tick"
    /\ keys["w"] /\ keys["shift"]
    /\ animations["player"]["RUN"] = NoAction
    /\ currentAnimation["player"] = "WALK"
    /\ velocity["player"].z = Quot(Cos(rotation["player"]) * PlayerRunSpeed, 1000)
    /\ position["player"].z = Apart.player.z + Quot(velocity["player"].z * ev.dt, 1000)

\* this step calls performAttack for character c
AttackAttempt(c) ==
    IF c = "player"
    THEN /\ ev'.type = "click" \/ (ev'.type = "keydown" /\ ev'.key = "f")
         /\ ~isAttacking["player"] /\ ~isJumping["player"]
    ELSE IsTick /\ EnemyEvaluated /\ InAttackBand /\ attackCooldown <= 0

\* the timer this step armed for character c runs for `duration`
TimerArmed(c, duration) ==
    /\ Len(timers') = Len(timers) + 1
    /\ timers'[Len(timers')].char = c
    /\ timers'[Len(timers')].duration = duration

(* C16 (as claimed): an attack started for a character with no ATTACK clip   *)
(* bound still sets isAttacking and arms the attack timer with the fallback  *)
(* duration 1.0; only the role change is skipped.                            *)
C16_AttackWithoutClipLocks ==
    [][ \A c \in Chars :
          (AttackAttempt(c) /\ animations[c]["ATTACK"] = NoAction) =>
              /\ isAttacking'[c]
              /\ TimerArmed(c, DefaultAttackDuration)
              /\ currentAnimation'[c] = currentAnimation[c]
      ]_vars

(* C16 (amended): an attack requested for a character with no ATTACK clip    *)
(* bound does nothing: isAttacking stays false, no timer is armed and no     *)
(* role is requested.  With an ATTACK clip bound the attack locks and arms   *)
(* the timer with the clip's duration, or with the fallback 1.0 when that    *)
(* duration is not positive.                                                 *)
C16_AttackNeedsClip ==
    [][ \A c \in Chars :
          AttackAttempt(c) =>
              IF animations[c]["ATTACK"] = NoAction
              THEN /\ ~isAttacking'[c]
                   /\ timers' = timers
                   /\ currentAnimation'[c] = currentAnimation[c]
                   /\ \A i \in 1..Len(calls') :
                         ~(calls'[i].char = c /\ calls'[i].role = "ATTACK")
              ELSE /\ isAttacking'[c]
                   /\ currentAnimation'[c] = "ATTACK"
                   /\ TimerArmed(c, IF animationMap[c]["ATTACK"].duration > 0
                                    THEN animationMap[c]["ATTACK"].duration
                                    ELSE DefaultAttackDuration)
      ]_vars

\* a click on a loaded, idle player without an ATTACK clip started nothing
C16_Witness ==
    /\ ev.type = "click"
    /\ model["player"] # 0
    /\ animations["player"]["ATTACK"] = NoAction
    /\ ~isAttacking["player"]
    /\ ~isJumping["player"]
    /\ timers = <<>>

NoJumpClip == animations["player"]["JUMP"] = NoAction

LatestLoad == [c \in Chars |-> IF c = "player" THEN nextId - 2 ELSE nextId - 1]

\* the load ids of the upload before the latest, per character
PreviousLoad == [c \in Chars |-> LatestLoad[c] - 2]

\* the latest upload was requested with both characters loaded and before the
\* callbacks of the upload before it had all run; every load of both uploads
\* has succeeded since
UploadsOverlapped ==
    /\ PreviousLoad["player"] >= 3
    /\ \A c \in Chars : before.model[c] # 0
    /\ before.model["enemy"] # PreviousLoad["enemy"]
    /\ loads = {}
    /\ \A c \in Chars : LatestLoad[c] \in scene /\ PreviousLoad[c] \in scene

\* character c's model, mixer and bindings all come from load id
AllFromLoad(c, id) ==
    /\ model[c] = id
    /\ mixer[c] = id
    /\ \A role \in Roles :
          /\ animations[c][role] # NoAction =>
                animations[c][role].mixer = id /\ animations[c][role].clip.load = id
          /\ animationMap[c][role].clip # NoClip => animationMap[c][role].clip.load = id

(* C18 (as claimed): when a second upload is requested before the load       *)
(* callbacks of the first have run, then once every callback has run each    *)
(* character's model, mixer and bindings come only from the second upload.   *)
(* The callbacks carry no request token: whichever load completes last wins. *)
C18_LatestUploadWins ==
    UploadsOverlapped => \A c \in Chars : AllFromLoad(c, LatestLoad[c])

(* C19 (as claimed): once a model replacement has completed for a character, *)
(* every role bound in that character's animation set refers to a clip of   *)
(* the newly loaded model played on the new mixer, whatever the interleaving *)
(* of upload requests and load completions.  A callback of an earlier        *)
(* request that runs after a later request cleared the set files its clips   *)
(* into the new set, and the replacement only overwrites the roles it finds. *)
C19_OnlyNewBindings ==
    \A c \in Chars :
        JustUploaded(c, ev.file) =>
            \A role \in Roles :
                /\ animations[c][role] # NoAction =>
                      /\ animations[c][role].mixer = mixer[c]
                      /\ animations[c][role].clip.load = model[c]
                /\ animationMap[c][role].clip # NoClip =>
                      animationMap[c][role].clip.load = model[c]

\* this step is an attack input (F or a click) on an airborne player that is
\* not attacking and has an ATTACK clip
AttackInputAirborne ==
    /\ ev'.type = "click" \/ (ev'.type = "keydown" /\ ev'.key = "f")
    /\ isJumping["player"]
    /\ ~isAttacking["player"]
    /\ animations["player"]["ATTACK"] # NoAction

(* C20 (as claimed): the player can attack while airborne: an attack input   *)
(* on an airborne player starts an attack, which makes a state with          *)
(* isAttacking and isJumping both true reachable.                            *)
C20_AttackWhileAirborne ==
    [][ AttackInputAirborne => isAttacking'["player"] /\ isJumping'["player"] ]_vars

(* C20 (amended): the player cannot attack while airborne: an attack input   *)
(* on an airborne player starts nothing, a jump input on an attacking player *)
(* starts nothing, and the player's isAttacking and isJumping are never both *)
(* true.                                                                     *)
C20_NeverAirborneAttack ==
    ~(isAttacking["player"] /\ isJumping["player"])

\* a click on the airborne player, with an ATTACK clip bound, started no attack
C20_Witness ==
    /\ ev.type = "click"
    /\ isJumping["player"]
    /\ velocity["player"].y > 0
    /\ animations["player"]["ATTACK"] # NoAction
    /\ ~isAttacking["player"]
    /\ \A i \in 1..Len(timers) : timers[i].char # "player"

\* this step is a key-down event for a key that is already held (auto-repeat)
RepeatedKeyDown == ev'.type = "keydown" /\ keys[ev'.key]

(* C21 (as claimed): a player jump or attack starts only when its key goes   *)
(* from released to pressed: a key-down event for a key that is already held *)
(* starts no jump and no attack, even after the previous jump has landed or  *)
(* the previous attack lock has expired.  The listener never looks at the    *)
(* key's held state (or at e.repeat), so a held key fires again.             *)
C21_NoRepeatFire ==
    [][ RepeatedKeyDown => ~PlayerJumpStarts /\ ~PlayerAttackStarts ]_vars

(* C22: in every frame in which the player is attacking and not jumping,     *)
(* updatePlayer changes nothing: the player's position, heading, velocity,   *)
(* flags and CurrentRole are after the frame what they were before it,       *)
(* whatever keys are held.                                                   *)
C22_AttackFreezesPlayer ==
    [][ (IsTick /\ isAttacking["player"] /\ ~isJumping["player"]) =>
          /\ position'["player"] = position["player"]
          /\ rotation'["player"] = rotation["player"]
          /\ velocity'["player"] = velocity["player"]
          /\ isAttacking'["player"] = isAttacking["player"]
          /\ isJumping'["player"] = isJumping["player"]
          /\ currentAnimation'["player"] = currentAnimation["player"]
          /\ \A i \in 1..Len(calls') : calls'[i].char # "player"
      ]_vars

\* a frame went by with W held while the player was attacking: the player is
\* where it was constructed, heading as constructed, in the ATTACK role
C22_Witness ==
    /\ ev.type = "tick"
    /\ keys["w"]
    /\ isAttacking["player"]
    /\ ~isJumping["player"]
    /\ currentAnimation["player"] = "ATTACK"
    /\ position["player"] = Apart.player
    /\ rotation["player"] = Apart.prot

\* this frame's attack branch resets the cooldown before the cooldown update
CooldownReset == InAttackBand /\ attackCooldown <= 0

\* the cooldown the frame's cooldown update starts from
CooldownBeforeUpdate == IF CooldownReset THEN EnemyCooldownReset ELSE attackCooldown

(* C23 (as claimed): in every frame that evaluates the enemy policy, the     *)
(* attack cooldown decreases by exactly the frame's elapsed time,            *)
(* unconditionally, also when it is already <= 0.                            *)
C23_UnconditionalDecrement ==
    [][ (IsTick /\ EnemyEvaluated) =>
          attackCooldown' = CooldownBeforeUpdate - ev'.dt ]_vars

(* C23 (amended): in every frame that evaluates the enemy policy, the attack *)
(* cooldown decreases by the frame's elapsed time only while it is > 0; a    *)
(* cooldown that is <= 0 is left as it is, so it never drifts further below  *)
(* zero.                                                                     *)
C23_DecrementWhilePositive ==
    [][ (IsTick /\ EnemyEvaluated) =>
          /\ CooldownBeforeUpdate > 0 => attackCooldown' = CooldownBeforeUpdate - ev'.dt
          /\ CooldownBeforeUpdate <= 0 => attackCooldown' = attackCooldown
      ]_vars

\* a frame evaluated the enemy out of attack reach (it asked for WALK or IDLE)
\* with the cooldown expired, and the cooldown is still exactly 0
C23_Witness ==
    /\ ev.type = "tick"
    /\ ev.dt > 0
    /\ model["enemy"] # 0 /\ model["player"] # 0
    /\ ~isAttacking["enemy"]
    /\ Len(calls) >= 1
    /\ calls[Len(calls)].char = "enemy"
    /\ attackCooldown = 0

\* updateEnemy returns at once in this frame
EnemySkipped == isAttacking["enemy"] \/ model["player"] = 0 \/ model["enemy"] = 0

(* C24: in every frame in which the enemy is attacking, or in which the      *)
(* player model or the enemy model is not loaded, updateEnemy leaves the     *)
(* enemy's position, heading, CurrentRole and attack cooldown as they were:  *)
(* the cooldown does not run during the enemy's own attack lock.             *)
C24_EnemySkipped ==
    [][ (IsTick /\ EnemySkipped) =>
          /\ position'["enemy"] = position["enemy"]
          /\ rotation'["enemy"] = rotation["enemy"]
          /\ currentAnimation'["enemy"] = currentAnimation["enemy"]
          /\ attackCooldown' = attackCooldown
          /\ \A i \in 1..Len(calls') : calls'[i].char # "enemy"
      ]_vars

\* the enemy started its attack in a frame of 0.1 s; a frame of 0.5 s has gone by
\* during the attack and the cooldown is still what the first frame left
C24_Witness ==
    /\ ev.type = "tick"
    /\ ev.dt = 500
    /\ isAttacking["enemy"]
    /\ currentAnimation["enemy"] = "ATTACK"
    /\ attackCooldown = EnemyCooldownReset - 100
    /\ position["enemy"] = Adjacent.enemy

\* the movement keys are held
MovementIntent == keys["w"] \/ keys["s"]

\* the role the held keys ask for, given what is bound for the player
IntendedRole ==
    IF MovementIntent
    THEN IF keys["shift"] /\ animations["player"]["RUN"] # NoAction THEN "RUN" ELSE "WALK"
    ELSE "IDLE"

\* the player's role after a selection of IntendedRole, from role `old`
RoleAfterSelection(old) ==
    IF animations["player"][IntendedRole] # NoAction THEN IntendedRole ELSE old

(* C25: at the end of every frame in which the player model is loaded and    *)
(* the player is neither attacking nor jumping: with W or S held CurrentRole *)
(* is RUN when Shift is held and RUN is bound, otherwise WALK when WALK is   *)
(* bound; with neither held it is IDLE when IDLE is bound; when the selected *)
(* role is unbound CurrentRole is what it was.                               *)
C25_RoleFollowsKeys ==
    [][ (IsTick /\ model["player"] # 0
           /\ ~isAttacking'["player"] /\ ~isJumping'["player"]) =>
          currentAnimation'["player"] = RoleAfterSelection(currentAnimation["player"])
      ]_vars

\* a frame went by with W and Shift held and no RUN action bound: the player walks
C25_Witness ==
    /\ ev.type = "tick"
    /\ model["player"] # 0
    /\ keys["w"] /\ keys["shift"]
    /\ animations["player"]["RUN"] = NoAction
    /\ ~isAttacking["player"] /\ ~isJumping["player"]
    /\ currentAnimation["player"] = "WALK"
    /\ position["player"] # Apart.player

\* this step is a frame that starts with the player in the air
AirborneTick == IsTick /\ model["player"] # 0 /\ isJumping["player"]

\* the turn the held A / D keys make in a frame of dt
TurnOf(dt) ==
    (IF keys["a"] THEN PlayerRotationSpeed * dt ELSE 0)
      - (IF keys["d"] THEN PlayerRotationSpeed * dt ELSE 0)

(* C26: the frame in which the player lands clears isJumping and re-selects  *)
(* CurrentRole in that same frame from the held movement keys (RUN or WALK   *)
(* with W or S held, else IDLE, each only if bound); a frame that leaves the *)
(* player in the air does not change CurrentRole; every frame that starts    *)
(* with the player in the air still applies the rotation and the planar move.*)
C26_LandingSelectsRole ==
    [][ AirborneTick =>
          /\ ~isJumping'["player"] =>
                /\ position'["player"].y = 0
                /\ ~isAttacking["player"] =>
                      currentAnimation'["player"]
                          = RoleAfterSelection(currentAnimation["player"])
          /\ isJumping'["player"] =>
                /\ currentAnimation'["player"] = currentAnimation["player"]
                /\ \A i \in 1..Len(calls') : calls'[i].char # "player"
          /\ rotation'["player"] = rotation["player"] + TurnOf(ev'.dt)
          /\ MovementIntent =>
                /\ PlayerMovesAt(IF keys["shift"] THEN PlayerRunSpeed ELSE PlayerMoveSpeed)
                /\ CollisionRule("player")
          /\ ~MovementIntent =>
                /\ position'["player"].x = position["player"].x
                /\ position'["player"].z = position["player"].z
      ]_vars

\* the player has just landed with W held, away from where the jump started,
\* and walks again
C26_Witness ==
    /\ ev.type = "tick"
    /\ keys["w"] /\ keys["space"]
    /\ ~isJumping["player"]
    /\ position["player"].y = 0
    /\ position["player"] # Apart.player
    /\ currentAnimation["player"] = "WALK"
    /\ \E i \in 1..Len(calls) : calls[i] = [char |-> "player", role |-> "WALK", result |-> "played"]

(* C27: in every reachable state the enemy is not jumping, its height is 0   *)
(* and its CurrentRole is IDLE, WALK, ATTACK or 'NONE', never RUN or JUMP,   *)
(* whatever roles are bound for it.                                          *)
C27_EnemyGrounded ==
    /\ ~isJumping["enemy"]
    /\ position["enemy"].y = 0
    /\ velocity["enemy"].y = 0
    /\ currentAnimation["enemy"] \in {"IDLE", "WALK", "ATTACK", "NONE"}

\* the enemy, with RUN and JUMP actions bound, has followed the jumping player
\* on the ground and walks
C27_Witness ==
    /\ ev.type = "tick"
    /\ animations["enemy"]["RUN"] # NoAction
    /\ animations["enemy"]["JUMP"] # NoAction
    /\ isJumping["player"]
    /\ position["player"].y > 0
    /\ currentAnimation["enemy"] = "WALK"
    /\ position["enemy"] # AcrossTree.enemy
    /\ rotation["enemy"] # AcrossTree.erot

(* C28: in every reachable state a character whose isJumping is false is at  *)
(* height exactly 0, and no character's height is negative, whatever the     *)
(* frames' elapsed times were.                                               *)
C28_GroundedAtZero ==
    \A c \in Chars :
        /\ ~isJumping[c] => position[c].y = 0
        /\ position[c].y >= 0

\* a frame of 1 s has just brought the jumping player back to the ground: the
\* JUMP role gave way to IDLE and the height is 0 again
C28_Witness ==
    /\ ev.type = "tick"
    /\ ev.dt = 1000
    /\ keys["space"]
    /\ animations["player"]["JUMP"] # NoAction
    /\ ~isJumping["player"]
    /\ position["player"].y = 0
    /\ velocity["player"].y = 0
    /\ \E i \in 1..Len(calls) : calls[i] = [char |-> "player", role |-> "IDLE", result |-> "played"]

\* the actions playing on character c's mixer, the one animate() advances
PlayingOf(c) == {a \in running : a.mixer = mixer[c]}

(* C29 (as claimed): playback is exclusive: in every reachable state at most *)
(* one action is playing per character, and when one is playing it is the    *)
(* action bound to that character's CurrentRole.                             *)
C29_ExclusivePlayback ==
    \A c \in Chars :
        /\ Cardinality(PlayingOf(c)) <= 1
        /\ PlayingOf(c) # {} =>
              /\ currentAnimation[c] \in Roles
              /\ PlayingOf(c) = {animations[c][currentAnimation[c]]}

\* role r has a binding in character c's animation set
Bound(c, r) == r \in Roles /\ animations[c][r] # NoAction

(* C30 (as claimed): in every reachable state each character's CurrentRole   *)
(* is 'none' or a role that has a binding in that character's animation set, *)
(* also before the first model has loaded and between an upload request and  *)
(* its completion.                                                           *)
C30_CurrentRoleBound ==
    \A c \in Chars : currentAnimation[c] = "NONE" \/ Bound(c, currentAnimation[c])

\* role r1 comes before role r2 in the documented order
Earlier(r1, r2) ==
    \E i, j \in 1..5 : i < j /\ RoleOrder[i] = r1 /\ RoleOrder[j] = r2

\* character c's bindings when processModelAnimations reaches the last clip of
\* the uploaded file: the loop run over the clips before it, from the empty
\* bindings loadCustomModel left
BeforeLastClip(c) ==
    UploadForEach([World EXCEPT !.animationMap[c] = EmptyAnimationMap,
                                !.animations[c] = EmptyAnimations],
                  c, ev.id, SubSeq(ev.file, 1, Len(ev.file) - 1), 1).animationMap[c]

(* C31 (as claimed): a clip that matches the keyword sets of roles R1 and R2  *)
(* (R1 earlier in the order), processed when R1 already has a binding and R2  *)
(* has none, is bound to R2 and R1's binding stays as it was.  Checked on the *)
(* last clip of every uploaded list.                                          *)
C31_FallsToUnboundRole ==
    \A c \in Chars : \A r1, r2 \in Roles :
        ( /\ JustUploaded(c, ev.file)
          /\ Len(ev.file) >= 1
          /\ Earlier(r1, r2)
          /\ {r1, r2} \subseteq Matches[ev.file[Len(ev.file)]]
          /\ BeforeLastClip(c)[r1].clip # NoClip
          /\ BeforeLastClip(c)[r2].clip = NoClip )
        => /\ animationMap[c][r2].clip = [load |-> ev.id, idx |-> Len(ev.file)]
           /\ animationMap[c][r1] = BeforeLastClip(c)[r1]

\* l is the enemy load of an upload (the player load of that upload is l.id - 1)
EnemyUploadLoad(l) == l.kind = "upload" /\ l.who = "enemy"

\* the last handler showed the "loaded successfully" alert
SuccessNotified(shown) == \E i \in 1..Len(shown) : shown[i] = "success"

(* C32: for every upload, the enemy's load is started only in the success    *)
(* callback of that upload's player load; when the player load fails no      *)
(* enemy load is started (and none is pending without its player load having *)
(* completed); the success alert is shown only by the enemy's success        *)
(* callback, when both loads of the upload have completed.                   *)
C32_LoadsInSequence ==
    [][ /\ \A l \in loads' \ loads :
              EnemyUploadLoad(l) =>
                 /\ ev'.type = "uploadLoaded" /\ ev'.key = "player"
                 /\ ev'.id = l.id - 1
                 /\ model'["player"] = l.id - 1
        /\ \A l \in loads' :
              EnemyUploadLoad(l) => \A p \in loads' : p.id # l.id - 1
        /\ ev'.type = "loadError" =>
              /\ loads' = loads \ {l \in loads : l.id = ev'.id}
              /\ ~SuccessNotified(alerts')
        /\ SuccessNotified(alerts') =>
              /\ ev'.type = "uploadLoaded" /\ ev'.key = "enemy"
              /\ model'["enemy"] = ev'.id
              /\ \A l \in loads' : l.id \notin {ev'.id - 1, ev'.id}
      ]_vars

\* an upload has just completed: first its player load, then its enemy load,
\* and the success alert was shown
C32_Witness ==
    /\ ev.type = "uploadLoaded"
    /\ ev.key = "enemy"
    /\ alerts = <<"success">>
    /\ model = [player |-> ev.id - 1, enemy |-> ev.id]
    /\ loads = {}

(* C33: every attack lock is eventually released: once isAttacking is true   *)
(* for a character, its timer eventually fires and isAttacking is false      *)
(* again, also when an upload replaces the character's model while the timer *)
(* is pending.                                                               *)
C33_LockReleased ==
    \A c \in Chars : isAttacking[c] ~> ~isAttacking[c]

\* the player's lock was released by a timer that was armed before an upload
\* replaced the player's model (by one with no ATTACK clip)
C33_Witness ==
    /\ ev.type = "timeout"
    /\ ev.key = "player"
    /\ ~isAttacking["player"]
    /\ timers = <<>>
    /\ before.animations["player"]["ATTACK"] # NoAction
    /\ model["player"] >= 3
    /\ Unbound("player")

(* C34: in every reachable state, whatever the frames' elapsed times were,    *)
(* the planar position of the player and of the enemy is strictly outside the *)
(* tree radius (distance from the origin > 0.7) and strictly inside the arena *)
(* (|x| < 25 and |z| < 25).                                                   *)
C34_InsideArena ==
    \A c \in Chars :
        /\ position[c].x * position[c].x + position[c].z * position[c].z
              > TreeRadius * TreeRadius
        /\ Abs(position[c].x) < MapBoundary
        /\ Abs(position[c].z) < MapBoundary

\* the player walked one frame towards the arena's edge and stands just inside
\* it: another frame like the last one would take it out
C34_Witness ==
    /\ ev.type = "tick"
    /\ keys["w"]
    /\ position["player"].z > AtEdge.player.z
    /\ position["player"].z < MapBoundary
    /\ Candidate(position["player"], velocity["player"], ev.dt).z >= MapBoundary

\* the pending attack timers of character c
PendingTimers(c) == {i \in 1..Len(timers) : timers[i].char = c}

(* C35: for each character, in every reachable state, isAttacking is true    *)
(* exactly when one attack timer is pending for that character; a character  *)
(* never has two pending attack timers, so a timer never ends a lock that a  *)
(* different attack armed.                                                   *)
C35_OneTimerPerLock ==
    \A c \in Chars :
        /\ Cardinality(PendingTimers(c)) <= 1
        /\ isAttacking[c] <=> Cardinality(PendingTimers(c)) = 1

\* both characters are attacking, each with its own timer pending: the enemy
\* attacked in a frame, then F started the player's attack
C35_Witness ==
    /\ ev.type = "keydown" /\ ev.key = "f"
    /\ isAttacking["player"] /\ isAttacking["enemy"]
    /\ Len(timers) = 2
    /\ timers[1].char = "enemy"
    /\ timers[2].char = "player"

(* C36 (as claimed): for each character, whenever isAttacking is true its    *)
(* CurrentRole is ATTACK, after any sequence of frames, input events, timer  *)
(* expiries and model replacements.                                          *)
C36_AttackingMeansAttackRole ==
    \A c \in Chars : isAttacking[c] => currentAnimation[c] = "ATTACK"

\* this step starts an attack of character c: its lock goes from false to true
AttackStarts(c) == ~isAttacking[c] /\ isAttacking'[c]

\* this step resets and plays character c's ATTACK action
AttackPlayStarts(c) ==
    \E i \in 1..Len(calls') :
        calls'[i] = [char |-> c, role |-> "ATTACK", result |-> "played"]

(* C37 (as claimed): every attack start (isAttacking going from false to     *)
(* true) resets and starts the playback of the ATTACK action from its        *)
(* beginning, whatever roles are bound: there are as many ATTACK play-starts *)
(* as attack starts.                                                         *)
C37_AttackReplays ==
    [][ \A c \in Chars : AttackStarts(c) <=> AttackPlayStarts(c) ]_vars

(* C38 (as claimed): with frames of positive elapsed time that keep coming,  *)
(* every player jump that starts is eventually followed by a state in which  *)
(* isJumping is false and the height is 0, also a jump started before the    *)
(* player model has loaded.                                                  *)
C38_JumpEnds ==
    isJumping["player"] ~> (~isJumping["player"] /\ position["player"].y = 0)

\* the position in its file of the clip an action plays (0: no action)
ClipIndex(action) == action.clip.idx

(* C39 (as claimed): the startup load and the upload load classify alike:    *)
(* for every ordered clip list, the role-to-clip bindings made by the        *)
(* startup callbacks equal those processModelAnimations makes for the same   *)
(* list.  Checked when a copy of the startup file has just been uploaded;    *)
(* `before` holds the startup callbacks' bindings.                           *)
C39_SameClassification ==
    \A c \in Chars : \A role \in Roles :
        JustUploaded(c, startupFile) =>
            ClipIndex(animations[c][role]) = ClipIndex(before.animations[c][role])

\* the character a model node was loaded for: the startup loads are 1 (player)
\* and 2 (enemy), an upload's player load is nextId (odd), its enemy load the next
ModelOwner(id) == IF id % 2 = 1 THEN "player" ELSE "enemy"

\* the model nodes of character c in the scene
ModelsInScene(c) == {m \in scene : ModelOwner(m) = c}

(* C40 (as claimed): in every reachable state the scene holds at most one    *)
(* player model node and at most one enemy model node, for every             *)
(* interleaving of the startup load, upload requests and load completions:   *)
(* a replaced model is always removed from the scene.                        *)
C40_OneModelPerCharacter ==
    \A c \in Chars : Cardinality(ModelsInScene(c)) <= 1

=============================================================================
